---- MODULE Spec2Model ----
(***************************************************************************)
(* Model of the entity generation pipeline of the Asana seed-data          *)
(* generator: MethodologyBasedGenerator.generate_all and the seven stage   *)
(* generators it calls (organizations, departments, users, teams, team     *)
(* memberships, projects, tasks), with the date helpers they use.          *)
(*                                                                         *)
(* Time is counted in ticks, TicksPerSecond ticks to a second, from a      *)
(* Monday 00:00:00.  A datetime object is a number of ticks, a date object *)
(* a number of days, and a value written into a record with                *)
(* strftime("%Y-%m-%d %H:%M:%S") is a number of whole seconds: the format  *)
(* drops the part of the datetime below one second.                        *)
(*                                                                         *)
(* Every stage is a loop; one action is one iteration of the loop (one     *)
(* record appended), and the action that ends the stage hands the          *)
(* collection to the storage sink.  The values random.* returns are the    *)
(* inputs of an iteration.  They are drawn from small sets; the variable   *)
(* wide names the groups of draws that range over their whole set for the  *)
(* first record of a stage; every other draw takes one fixed value of its  *)
(* set, so every behaviour of the model is a run of the program.           *)
(***************************************************************************)
EXTENDS Integers, Sequences, FiniteSets, TLC

VARIABLES
    stage,          \* position of generate_all: the stage that runs next
    cfg,            \* constructor arguments of MethodologyBasedGenerator
    current_time,   \* self.current_time = datetime.now() at construction
    organizations,  \* self.organizations, in insertion order
    departments,    \* self.departments
    users,          \* self.users
    teams,          \* self.teams
    memberships,    \* the list generate_team_memberships builds
    projects,       \* self.projects
    tasks,          \* self.tasks
    sink,           \* tables committed to the database, in commit order
    pos,            \* loop position inside the running stage
    wide,           \* groups of random draws explored over their whole set
    previous_run,   \* the collections of the runs main has finished before
    helper          \* the last call of a helper made outside generate_all:
                    \* its name, its arguments and what it returned

vars == <<stage, cfg, current_time, organizations, departments, users,
          teams, memberships, projects, tasks, sink, pos, wide, previous_run,
          helper>>

-----------------------------------------------------------------------------
(* Bounds of the model *)

TicksPerSecond == 2
NowDay == 5000
MaxLagSeconds == 2
NumUsersSmall == 3
NumUsersLarge == 30
TasksPerUser == 1
HistoryMonths == 1
MaxTaskIds == 3
MaxDependencies == 3
MaxFindings == 21

-----------------------------------------------------------------------------
(* datetime, timedelta and date arithmetic *)

SecondT == TicksPerSecond
MinuteT == 60 * TicksPerSecond
HourT == 3600 * TicksPerSecond
DayT == 86400 * TicksPerSecond

Max(a, b) == IF a >= b THEN a ELSE b
Min(a, b) == IF a <= b THEN a ELSE b

\* (a - b).days of a timedelta: whole days, rounded towards minus infinity
DeltaDays(a, b) == IF a >= b THEN (a - b) \div DayT
                   ELSE 0 - (((b - a) + DayT - 1) \div DayT)

\* datetime.date()
DateOf(t) == t \div DayT

\* datetime.combine(d, datetime.max.time()): the last instant of day d
EndOfDay(d) == d * DayT + (DayT - 1)

\* dt.strftime("%Y-%m-%d %H:%M:%S"): the text keeps whole seconds only
strftime(t) == t \div TicksPerSecond

\* datetime.strptime(s, "%Y-%m-%d %H:%M:%S")
strptime(s) == s * TicksPerSecond

\* dt.replace(hour=h, minute=m, second=s, microsecond=0)
ReplaceTime(t, h, m, s) == DateOf(t) * DayT + h * HourT + m * MinuteT + s * SecondT

\* random.random() * x for a span x of ticks: 0 and the largest value below x
\* (above x when x is negative)
RandomTimes(x) == IF x > 0 THEN {0, x - 1}
                  ELSE IF x < 0 THEN {0, x + 1}
                  ELSE {0}

\* the draws of one random call: the whole set S when group g is explored
\* and the record is the first one of its stage, the value dflt otherwise
Draws(g, first, S, dflt) == IF g \in wide /\ first THEN S ELSE {dflt}

\* random.randint(a, b), a <= b: the two ends of the range
RandInt(a, b) == {a, b}

-----------------------------------------------------------------------------
(* MethodologyBasedGenerator.__init__ *)

company_created == current_time - 365 * 5 * DayT
history_start == current_time - cfg.history_months * 30 * DayT

\* datetime.now() read after construction: the clock has not gone back
LaterNow == {current_time + l * SecondT : l \in {0, MaxLagSeconds}}

NowChoices == {NowDay * DayT,
               NowDay * DayT + 10 * HourT + 30 * MinuteT + (TicksPerSecond - 1)}

AtStart == [i |-> 0, j |-> 0, n |-> 0]

NoCall == [name |-> "none"]

InitWith(C, W) ==
    /\ stage = "organizations"
    /\ cfg \in C
    /\ current_time \in NowChoices
    /\ organizations = <<>>
    /\ departments = <<>>
    /\ users = <<>>
    /\ teams = <<>>
    /\ memberships = <<>>
    /\ projects = <<>>
    /\ tasks = <<>>
    /\ sink = <<>>
    /\ pos = AtStart
    /\ wide = W
    /\ previous_run = <<>>
    /\ helper = NoCall

\* the same without the commit: the rows never reach the database file
insert_dicts_uncommitted(table, data_list) == sink

\* Database.insert_dicts: an empty list is not inserted, anything else is
\* inserted and committed
insert_dicts(table, data_list) ==
    IF data_list = <<>> THEN sink ELSE Append(sink, table)

\* the records of collection coll whose field f has value v, as indices
Where(coll, f, v) == {k \in 1..Len(coll) : coll[k][f] = v}

-----------------------------------------------------------------------------
(* generate_organizations *)

\* int(years_ago * 365) for years_ago = random.uniform(2, 8)
YearsAgoDays == {2 * 365, 8 * 365}

\* scraper.company_names: distinct names, more of them than organizations,
\* two of them alike up to a space
CompanyNames == <<"Tech Corp", "TechCorp", "Acme">>

\* company_name.lower().replace(" ", "").replace(".", "").replace("-", "") + ".com"
Domain(company_name) ==
    CASE company_name = "Tech Corp" -> "techcorp.com"
      [] company_name = "TechCorp" -> "techcorp.com"
      [] company_name = "Acme" -> "acme.com"

\* the names of available_names that are not in used_names, and the first
\* of them in the order of the list
UnusedNames ==
    {CompanyNames[k] : k \in 1..Len(CompanyNames)}
        \ {organizations[o].name : o \in 1..Len(organizations)}

FirstUnusedName ==
    CompanyNames[CHOOSE k \in 1..Len(CompanyNames) :
                    /\ CompanyNames[k] \in UnusedNames
                    /\ \A j \in 1..(k - 1) : CompanyNames[j] \notin UnusedNames]

\* one iteration of the loop: the first unused name of the shuffled list
GenOrganization ==
    /\ stage = "organizations"
    /\ pos.i < cfg.num_organizations
    /\ \E years_ago_days \in Draws("org_time", pos.i = 0, YearsAgoDays, 2 * 365) :
       \E company_name \in Draws("org_name", pos.i = 0, UnusedNames, FirstUnusedName) :
         LET org_created == company_created - years_ago_days * DayT
             org == [organization_id |-> Len(organizations) + 1,
                     name |-> company_name,
                     domain |-> Domain(company_name),
                     created_at |-> strftime(org_created)]
         IN organizations' = Append(organizations, org)
    /\ pos' = [pos EXCEPT !.i = @ + 1]
    /\ UNCHANGED <<stage, cfg, current_time, departments, users, teams,
                   memberships, projects, tasks, sink, wide, previous_run, helper>>

EndOrganizations ==
    /\ stage = "organizations"
    /\ pos.i = cfg.num_organizations
    /\ sink' = insert_dicts("organizations", organizations)
    /\ stage' = "departments"
    /\ pos' = AtStart
    /\ UNCHANGED <<cfg, current_time, organizations, departments, users, teams,
                   memberships, projects, tasks, wide, previous_run, helper>>

-----------------------------------------------------------------------------
(* generate_departments *)

\* DEPARTMENTS: name and user_percentage in hundredths
DEPARTMENTS == <<[name |-> "Product Engineering", pct |-> 40],
                 [name |-> "Marketing", pct |-> 15],
                 [name |-> "Sales/HR/Customer Success", pct |-> 35],
                 [name |-> "Upper Management", pct |-> 10]>>

\* one iteration of the loop over organizations: its four departments
GenDepartments ==
    /\ stage = "departments"
    /\ pos.i < Len(organizations)
    /\ LET org == organizations[pos.i + 1]
           org_created == strptime(org.created_at)
           dept(k) == [department_id |-> Len(departments) + k,
                       organization_id |-> org.organization_id,
                       name |-> DEPARTMENTS[k].name,
                       user_percentage |-> DEPARTMENTS[k].pct,
                       created_at |-> strftime(org_created)]
       IN departments' = departments \o [k \in 1..Len(DEPARTMENTS) |-> dept(k)]
    /\ pos' = [pos EXCEPT !.i = @ + 1]
    /\ UNCHANGED <<stage, cfg, current_time, organizations, users, teams,
                   memberships, projects, tasks, sink, wide, previous_run, helper>>

EndDepartments ==
    /\ stage = "departments"
    /\ pos.i = Len(organizations)
    /\ sink' = insert_dicts("departments", departments)
    /\ stage' = "users"
    /\ pos' = AtStart
    /\ UNCHANGED <<cfg, current_time, organizations, departments, users, teams,
                   memberships, projects, tasks, wide, previous_run, helper>>

-----------------------------------------------------------------------------
(* generate_users *)

\* org_user_count of the organization at 1-based position k
OrgUserCount(k) ==
    LET users_per_org == cfg.num_users \div Len(organizations)
        remaining_users == cfg.num_users % Len(organizations)
    IN users_per_org + (IF k - 1 < remaining_users THEN 1 ELSE 0)

\* dept_user_count = int(org_user_count * dept_pct); the product in
\* hundredths equals the float product for the counts of the model
DeptUserCount(d) ==
    (OrgUserCount(departments[d].organization_id) * departments[d].user_percentage) \div 100

\* the department of every user the nested loops create, in creation order
RECURSIVE UserPlan(_)
UserPlan(d) ==
    IF d > Len(departments) THEN <<>>
    ELSE [k \in 1..DeptUserCount(d) |-> d] \o UserPlan(d + 1)

\* is_manager: every job title of Upper Management names a manager, the
\* other departments have titles of both kinds
IsManagerDraws(dept) ==
    IF dept.name = "Upper Management" THEN {TRUE} ELSE {FALSE, TRUE}

\* the same with the sign of the offset slipped
UserCreatedBeforeOrg(org_created, days_after_org) == org_created - days_after_org * DayT

\* user_created = org_created + timedelta(days=days_after_org)
UserCreated(org_created, days_after_org) == org_created + days_after_org * DayT

\* the same counting the day that has begun
DaysSinceActiveMaxRoundedUp(user_created) == DeltaDays(current_time, user_created) + 1

\* the upper end of random.randint(0, days_since_created)
DaysSinceActiveMax(user_created) == DeltaDays(current_time, user_created)

\* last_active for a drawn days_since_active
LastActive(user_created, days_since_active) ==
    IF user_created < current_time
    THEN user_created + days_since_active * DayT
    ELSE user_created

\* the first names and surnames the scraper hands out, as lists of
\* characters, and str.lower() on them
FirstNames == {<<"A">>}
Surnames == {<<"B">>, <<"b">>, <<"B", "1">>}

Lower(name) ==
    [k \in 1..Len(name) |-> CASE name[k] = "A" -> "a"
                              [] name[k] = "B" -> "b"
                              [] OTHER -> name[k]]

\* str(counter) of a non-negative int
RECURSIVE str(_)
str(n) ==
    LET digit == <<"0", "1", "2", "3", "4", "5", "6", "7", "8", "9">>[(n % 10) + 1]
    IN IF n < 10 THEN <<digit>> ELSE Append(str(n \div 10), digit)

\* f"{first_name.lower()}.{last_name.lower()}"
EmailBase(first_name, last_name) == Lower(first_name) \o <<".">> \o Lower(last_name)

\* f"{email_base}@{org_domain}" when counter is 0, else
\* f"{email_base}{counter}@{org_domain}"
Email(email_base, counter, org_domain) ==
    email_base \o (IF counter = 0 THEN <<>> ELSE str(counter)) \o <<"@", org_domain>>

\* any(u.get("email") == email for u in users.values())
InUse(email) == \E k \in 1..Len(users) : users[k].email = email

\* the same giving up after one renaming
UniqueEmailRenamedOnce(email, email_base, org_domain, counter) ==
    IF InUse(email) THEN Email(email_base, counter, org_domain) ELSE email

\* the while loop: email when no user has it, else the loop on with
\* f"{email_base}{counter}@{org_domain}" and counter + 1
RECURSIVE UniqueEmail(_, _, _, _)
UniqueEmail(email, email_base, org_domain, counter) ==
    IF InUse(email)
    THEN UniqueEmail(Email(email_base, counter, org_domain), email_base,
                     org_domain, counter + 1)
    ELSE email

GenUser ==
    /\ stage = "users"
    /\ Len(organizations) > 0
    /\ pos.i < Len(UserPlan(1))
    /\ LET dept == departments[UserPlan(1)[pos.i + 1]]
           org == organizations[dept.organization_id]
           org_created == strptime(org.created_at)
           first == (pos.i = 0)
           org_domain == org.domain
       IN \E first_name \in Draws("user_name", first, FirstNames, <<"A">>) :
          \E last_name \in Draws("user_name", first, Surnames, <<"B">>) :
          \E is_manager \in Draws("user_role", first, IsManagerDraws(dept),
                                  dept.name = "Upper Management") :
          \E days_after_org \in Draws("user_time", first,
                 RandInt(0, Min(1825, DeltaDays(current_time, org_created))), 0) :
            LET user_created == UserCreated(org_created, days_after_org)
            IN \E days_since_active \in Draws("user_time", first,
                      RandInt(0, Max(0, DaysSinceActiveMax(user_created))), 0) :
                 LET last_active == LastActive(user_created, days_since_active)
                     email_base == EmailBase(first_name, last_name)
                     email == UniqueEmail(Email(email_base, 0, org_domain),
                                          email_base, org_domain, 1)
                     user == [user_id |-> Len(users) + 1,
                              organization_id |-> org.organization_id,
                              email |-> email,
                              first_name |-> first_name,
                              last_name |-> last_name,
                              department_id |-> dept.department_id,
                              is_manager |-> is_manager,
                              created_at |-> strftime(user_created),
                              last_active_at |-> strftime(last_active)]
                 IN users' = Append(users, user)
    /\ pos' = [pos EXCEPT !.i = @ + 1]
    /\ UNCHANGED <<stage, cfg, current_time, organizations, departments, teams,
                   memberships, projects, tasks, sink, wide, previous_run, helper>>

\* num_users // len(organizations) with no organization: ZeroDivisionError
FailUsers ==
    /\ stage = "users"
    /\ Len(organizations) = 0
    /\ stage' = "failed"
    /\ UNCHANGED <<cfg, current_time, organizations, departments, users, teams,
                   memberships, projects, tasks, sink, pos, wide, previous_run, helper>>

EndUsers ==
    /\ stage = "users"
    /\ Len(organizations) > 0
    /\ pos.i = Len(UserPlan(1))
    /\ sink' = insert_dicts("users", users)
    /\ stage' = "teams"
    /\ pos' = AtStart
    /\ UNCHANGED <<cfg, current_time, organizations, departments, users, teams,
                   memberships, projects, tasks, wide, previous_run, helper>>

\* users_by_dept[dept_id] and the managers set, as generate_users returns them
users_by_dept(d) == Where(users, "department_id", d)
managers == Where(users, "is_manager", TRUE)

-----------------------------------------------------------------------------
(* generate_teams *)

\* the same without the floor of one team
NumTeamsNoFloor(n_users) == n_users \div ((5 + 7) \div 2)

\* num_teams = max(1, len(user_ids) // avg_size), avg_size = (5 + 7) // 2
NumTeams(n_users) == Max(1, n_users \div ((5 + 7) \div 2))

\* the department of every team the loops create; a department without
\* users is skipped
RECURSIVE TeamPlan(_)
TeamPlan(d) ==
    IF d > Len(departments) THEN <<>>
    ELSE (IF users_by_dept(d) = {} THEN <<>>
          ELSE [k \in 1..NumTeams(Cardinality(users_by_dept(d))) |-> d])
         \o TeamPlan(d + 1)

\* days_after_org = random.randint(1, max_days): the ends of the range and
\* a day one week before the last
TeamDayDraws(max_days) == {1, Max(1, max_days - 7), max_days}

GenTeam ==
    /\ stage = "teams"
    /\ pos.i < Len(TeamPlan(1))
    /\ LET dept == departments[TeamPlan(1)[pos.i + 1]]
           org == organizations[dept.organization_id]
           org_created == strptime(org.created_at)
           first == (pos.i = 0)
       IN \E now \in Draws("team_time", first, LaterNow, current_time) :
            LET max_days == Max(1, DeltaDays(now, org_created))
            IN \E days_after_org \in Draws("team_time", first, TeamDayDraws(max_days), 1) :
                 LET team_created == org_created + days_after_org * DayT
                     team == [team_id |-> Len(teams) + 1,
                              organization_id |-> org.organization_id,
                              department_id |-> dept.department_id,
                              created_at |-> strftime(team_created)]
                 IN teams' = Append(teams, team)
    /\ pos' = [pos EXCEPT !.i = @ + 1]
    /\ UNCHANGED <<stage, cfg, current_time, organizations, departments, users,
                   memberships, projects, tasks, sink, wide, previous_run, helper>>

EndTeams ==
    /\ stage = "teams"
    /\ pos.i = Len(TeamPlan(1))
    /\ sink' = insert_dicts("teams", teams)
    /\ stage' = "team_memberships"
    /\ pos' = AtStart
    /\ UNCHANGED <<cfg, current_time, organizations, departments, users, teams,
                   memberships, projects, tasks, wide, previous_run, helper>>

-----------------------------------------------------------------------------
(* generate_team_memberships *)

\* datetime_after(base, min_hours, max_hours) for the drawn hours, the
\* clock reading now and the drawn minutes
datetime_after(base, hours, now, minutes) ==
    LET result == base + hours * HourT
    IN IF result > now THEN now - minutes * MinuteT ELSE result

\* teams_by_dept[dept_id]
teams_by_dept(d) == Where(teams, "department_id", d)

\* the same with the primary team left in
SecondaryChoicesAny(team_ids, primary_team) == team_ids

\* [t for t in team_ids if t != primary_team]
SecondaryChoices(team_ids, primary_team) == team_ids \ {primary_team}

\* one iteration of the loop over the users of a department: the primary
\* membership and, on a roll below 0.15 with more than one team, a secondary
GenMembership ==
    /\ stage = "team_memberships"
    /\ pos.i < Len(users)
    /\ LET user == users[pos.i + 1]
           team_ids == teams_by_dept(user.department_id)
           user_created == strptime(user.created_at)
           first == (pos.i = 0)
           joined(team_id, min_hours) ==
               LET team_created == strptime(teams[team_id].created_at)
                   earliest == Max(user_created, team_created)
               IN {datetime_after(earliest, hours, now, minutes) :
                      hours \in Draws("member_time", first, RandInt(min_hours, 720), min_hours),
                      now \in Draws("member_time", first, LaterNow, current_time),
                      minutes \in Draws("member_time", first, RandInt(1, 60), 1)}
           Member(team_id, is_primary, joined_at) ==
               [membership_id |-> 0,
                team_id |-> team_id,
                user_id |-> user.user_id,
                is_primary_team |-> is_primary,
                joined_at |-> strftime(joined_at)]
           Number(ms) == [k \in 1..Len(ms) |->
                             [ms[k] EXCEPT !.membership_id = Len(memberships) + k]]
       IN IF team_ids = {}
          THEN memberships' = memberships
          ELSE \E primary_team \in Draws("member_team", first, team_ids,
                                         CHOOSE t \in team_ids : \A o \in team_ids : t <= o) :
               \E joined_at \in joined(primary_team, 1) :
               \E roll \in Draws("member_team", first, {FALSE, TRUE}, FALSE) :
                 IF roll /\ Cardinality(team_ids) > 1
                 THEN \E secondary \in SecondaryChoices(team_ids, primary_team) :
                      \E joined_secondary \in joined(secondary, 24) :
                        memberships' = memberships \o Number(
                            <<Member(primary_team, TRUE, joined_at),
                              Member(secondary, FALSE, joined_secondary)>>)
                 ELSE memberships' = memberships \o Number(
                            <<Member(primary_team, TRUE, joined_at)>>)
    /\ pos' = [pos EXCEPT !.i = @ + 1]
    /\ UNCHANGED <<stage, cfg, current_time, organizations, departments, users,
                   teams, projects, tasks, sink, wide, previous_run, helper>>

EndMemberships ==
    /\ stage = "team_memberships"
    /\ pos.i = Len(users)
    /\ sink' = insert_dicts("team_memberships", memberships)
    /\ stage' = "projects"
    /\ pos' = AtStart
    /\ UNCHANGED <<cfg, current_time, organizations, departments, users, teams,
                   memberships, projects, tasks, wide, previous_run, helper>>

-----------------------------------------------------------------------------
(* generate_projects *)

PROJECT_TYPES == <<"sprint", "campaign", "process", "cross_functional", "oversight">>

\* the hour, minute and second random_datetime_in_range draws: hour from
\* 9..17 or from 0..23, minute and second from 0..59
TimeOfDayDraws == {<<0, 0, 0>>, <<9, 0, 0>>, <<17, 59, 59>>, <<23, 59, 59>>}

\* random_datetime_in_range(start, end) for the drawn day offset (ticks into
\* the random_days span) and the drawn time of day
random_datetime_in_range(start, day_offset, tod) ==
    ReplaceTime(start + day_offset, tod[1], tod[2], tod[3])

\* the span random.random() * delta.days covers
RandomDaysSpan(start, end) == DeltaDays(end, start) * DayT

\* latest_update = min(datetime.combine(due_date, datetime.max.time()), current_time)
LatestUpdate(due_date) == Min(EndOfDay(due_date), current_time)

\* the same falling back to latest_update when the window is empty
ProjectUpdatedAtAtWindowEnd(created_at, latest_update, offset) ==
    IF latest_update > created_at THEN created_at + offset ELSE latest_update

\* updated_at of a project for the drawn offset into [created_at, latest_update)
ProjectUpdatedAt(created_at, latest_update, offset) ==
    IF latest_update > created_at THEN created_at + offset ELSE created_at

\* creator = random.choice(org_managers) if org_managers else random.choice(org_users)
ProjectCreators(org_id) ==
    LET org_users == Where(users, "organization_id", org_id)
        org_managers == org_users \cap managers
    IN IF org_managers # {} THEN org_managers ELSE org_users

Lowest(S) == CHOOSE x \in S : \A y \in S : x <= y

\* one project of the team under the outer loop; the first project of a team
\* follows the draw of num_projects
GenProject ==
    /\ stage = "projects"
    /\ pos.i < Len(teams)
    /\ ProjectCreators(teams[pos.i + 1].organization_id) # {}
    /\ LET team == teams[pos.i + 1]
           team_created == strptime(team.created_at)
           first == (pos.i = 0 /\ pos.j = 0)
           earliest == Max(team_created, history_start)
       IN \E num_projects \in (IF pos.j = 0
                               THEN Draws("project_count", pos.i = 0, 2..4, 2)
                               ELSE {pos.n}) :
          \E proj_type \in Draws("project_type", first,
                                 {PROJECT_TYPES[k] : k \in 1..Len(PROJECT_TYPES)},
                                 PROJECT_TYPES[1]) :
          \E creator \in Draws("project_refs", first,
                               ProjectCreators(team.organization_id),
                               Lowest(ProjectCreators(team.organization_id))) :
          \E day_offset \in Draws("project_time", first,
                                  RandomTimes(RandomDaysSpan(earliest, current_time)), 0) :
          \E tod \in Draws("project_time", first, TimeOfDayDraws, <<9, 0, 0>>) :
          \E two_week \in Draws("project_time", first, {FALSE, TRUE}, TRUE) :
          \E span \in Draws("project_time", first, RandInt(14, 90), 14) :
            LET created_at == random_datetime_in_range(earliest, day_offset, tod)
                start_date == DateOf(created_at)
                due_date == IF proj_type = "sprint" /\ two_week
                            THEN start_date + 14
                            ELSE start_date + span
                latest_update == LatestUpdate(due_date)
            IN \E offset \in Draws("project_time", first,
                                   RandomTimes(Max(0, latest_update - created_at)), 0) :
                 LET updated_at == ProjectUpdatedAt(created_at, latest_update, offset)
                     proj == [project_id |-> Len(projects) + 1,
                              organization_id |-> team.organization_id,
                              team_id |-> team.team_id,
                              project_type |-> proj_type,
                              start_date |-> start_date,
                              due_date |-> due_date,
                              created_at |-> strftime(created_at),
                              updated_at |-> strftime(updated_at),
                              created_by_id |-> creator]
                 IN /\ projects' = Append(projects, proj)
                    /\ pos' = IF pos.j + 1 = num_projects
                              THEN [i |-> pos.i + 1, j |-> 0, n |-> 0]
                              ELSE [i |-> pos.i, j |-> pos.j + 1, n |-> num_projects]
    /\ UNCHANGED <<stage, cfg, current_time, organizations, departments, users,
                   teams, memberships, tasks, sink, wide, previous_run, helper>>

EndProjects ==
    /\ stage = "projects"
    /\ pos.i = Len(teams)
    /\ sink' = insert_dicts("projects", projects)
    /\ stage' = "tasks"
    /\ pos' = AtStart
    /\ UNCHANGED <<cfg, current_time, organizations, departments, users, teams,
                   memberships, projects, tasks, wide, previous_run, helper>>

-----------------------------------------------------------------------------
(* generate_tasks *)

\* None
None == 0 - 1

\* min(14, random.lognormvariate(1.1, 0.8)) days: an hour, three days and a
\* draw above the cap
LogNormDays(draw) == Min(14 * DayT, draw)
LogNormDraws == {HourT, 3 * DayT, 20 * DayT}

\* the same without the clamp at the lower bound
_task_created_at_no_lower_clamp(start, end, offset, shift) ==
    Min(end, start + offset + shift * DayT)

\* _task_created_at(start, end, day_weights) for the drawn offset into the
\* interval and the drawn shift in days (0 when the weekday roll keeps dt)
\* every weight of day_weights lies strictly between 0 and 1, so the roll
\* random.random() > day_weights[dt.weekday()] can fall either way on any day
_task_created_at(start, end, offset, shift) ==
    LET dt == start + offset + shift * DayT
    IN Max(start, Min(end, dt))

\* _completion_state: completed_at of a completed task for the drawn days
\* and the drawn hours of the repair
_completion_state(created_at, days, hours) ==
    LET completed_at == Min(created_at + days, current_time)
    IN IF completed_at <= created_at
       THEN created_at + hours * HourT
       ELSE completed_at

\* _updated_at for a task that is not completed, for the drawn offset
\* (random.random() ** 2) * min(age_days, 30)
AgeSpan(created_at) == Min(Max(current_time - created_at, 0), 30 * DayT)

_updated_at(created_at, completed_at, offset) ==
    IF completed_at # None THEN completed_at
    ELSE Min(current_time, created_at + offset)

\* date.weekday(): day 0 of the model is a Monday
weekday(d) == d % 7

\* avoid_weekends(d) when the roll is below the probability
avoid_weekends(d, roll) ==
    IF roll THEN (IF weekday(d) = 5 THEN d + 2
                  ELSE IF weekday(d) = 6 THEN d + 1 ELSE d)
    ELSE d

\* _due_date(created_at, project_due) for the branch the roll selects and
\* the drawn number of days
DueBranches == {"none", "overdue", "week", "month", "quarter"}

DueDays(branch) ==
    CASE branch = "overdue" -> RandInt(1, 14)
      [] branch = "week" -> RandInt(1, 7)
      [] branch = "month" -> RandInt(8, 30)
      [] branch = "quarter" -> RandInt(31, 90)
      [] OTHER -> {0}

\* the same without the cap at the due date of the project
_due_date_uncapped(created_at, project_due, branch, days, roll) ==
    IF branch = "none" THEN None
    ELSE IF branch = "overdue" THEN DateOf(created_at) - days
    ELSE avoid_weekends(DateOf(created_at) + days, roll)

_due_date(created_at, project_due, branch, days, roll) ==
    IF branch = "none" THEN None
    ELSE LET due == IF branch = "overdue" THEN DateOf(created_at) - days
                    ELSE avoid_weekends(DateOf(created_at) + days, roll)
         IN Min(due, project_due)

\* _pick_assignee: None on the unassigned roll, else a non-manager of the
\* organization, or any user of it when it has no non-manager
Assignees(org_users, unassigned) ==
    IF unassigned THEN {None}
    ELSE IF org_users \ managers # {} THEN org_users \ managers ELSE org_users

\* the same taking the manager from the managers of every organization
CreatorsAnyOrganization(org_users, assignee, manager_roll) ==
    IF manager_roll /\ managers # {} THEN managers
    ELSE IF assignee # None THEN {assignee} ELSE org_users

\* _pick_creator: a manager on the 0.7 roll when there is one, else the
\* assignee, or any user of the organization when the task is unassigned
Creators(org_users, assignee, manager_roll) ==
    IF manager_roll /\ org_users \cap managers # {} THEN org_users \cap managers
    ELSE IF assignee # None THEN {assignee} ELSE org_users

\* the same with the project stamped with the time of its new task
ProjectAfterTaskTouched(project, task) ==
    [project EXCEPT !.updated_at = task.updated_at]

\* the project dict after _generate_single_task built a task from it: the
\* function reads project["created_at"], ["due_date"], ["project_type"],
\* ["project_id"] and ["organization_id"] and assigns to none of its keys
ProjectAfterTask(project, task) == project

\* one iteration of the loop over range(total_tasks)
GenTask ==
    /\ stage = "tasks"
    /\ pos.i < Len(users) * cfg.tasks_per_user
    /\ projects # <<>>
    /\ LET first == (pos.i = 0)
       IN \E p \in Draws("task_project", first, 1..Len(projects), 1) :
          LET project == projects[p]
              proj_created == strptime(project.created_at)
              proj_due == project.due_date
              org_users == Where(users, "organization_id", project.organization_id)
              start == Max(proj_created, history_start)
              end == Min(current_time, EndOfDay(proj_due))
          IN
          \E unassigned \in Draws("task_refs", first, {FALSE, TRUE}, FALSE) :
          \E assignee \in Draws("task_refs", first, Assignees(org_users, unassigned),
                                Lowest(Assignees(org_users, unassigned))) :
          \E manager_roll \in Draws("task_refs", first, {FALSE, TRUE}, TRUE) :
          \E creator \in Draws("task_refs", first, Creators(org_users, assignee, manager_roll),
                               Lowest(Creators(org_users, assignee, manager_roll))) :
          \E offset \in Draws("task_time", first, RandomTimes(end - start), 0) :
          \E shift \in Draws("task_time", first, {0 - 2, 0 - 1, 0, 1}, 0) :
          \E is_completed \in Draws("task_completed", first, {FALSE, TRUE}, FALSE) :
          \E days \in Draws("task_time", first, LogNormDraws, 3 * DayT) :
          \E hours \in Draws("task_time", first, RandInt(1, 24), 1) :
          \E branch \in Draws("task_due", first, DueBranches, "week") :
          \E due_days \in Draws("task_due", first, DueDays(branch), Lowest(DueDays(branch))) :
          \E weekend_roll \in Draws("task_due", first, {FALSE, TRUE}, TRUE) :
            LET created_at == _task_created_at(start, end, offset, shift)
                completed_at == IF is_completed
                                THEN _completion_state(created_at, LogNormDays(days), hours)
                                ELSE None
                completed_by == IF ~is_completed THEN None
                                ELSE IF assignee # None THEN assignee ELSE creator
                due_date == _due_date(created_at, proj_due, branch, due_days, weekend_roll)
            IN \E upd \in Draws("task_time", first, RandomTimes(AgeSpan(created_at)), 0) :
                 LET updated_at == _updated_at(created_at, completed_at, upd)
                     task == [task_id |-> Len(tasks) + 1,
                              project_id |-> project.project_id,
                              organization_id |-> project.organization_id,
                              assignee_id |-> assignee,
                              is_completed |-> is_completed,
                              completed_at |-> IF completed_at # None
                                               THEN strftime(completed_at) ELSE None,
                              completed_by_id |-> completed_by,
                              due_date |-> due_date,
                              start_date |-> DateOf(created_at),
                              created_at |-> strftime(created_at),
                              updated_at |-> strftime(updated_at),
                              created_by_id |-> creator]
                 IN /\ tasks' = Append(tasks, task)
                    /\ projects' = [projects EXCEPT
                                        ![p] = ProjectAfterTask(project, task)]
    /\ pos' = [pos EXCEPT !.i = @ + 1]
    /\ UNCHANGED <<stage, cfg, current_time, organizations, departments, users,
                   teams, memberships, sink, wide, previous_run, helper>>

EndTasks ==
    /\ stage = "tasks"
    /\ pos.i = Len(users) * cfg.tasks_per_user
    /\ sink' = insert_dicts("tasks", tasks)
    /\ stage' = "done"
    /\ pos' = AtStart
    /\ UNCHANGED <<cfg, current_time, organizations, departments, users, teams,
                   memberships, projects, tasks, wide, previous_run, helper>>

-----------------------------------------------------------------------------
(* MethodologyBasedGenerator.generate_all *)

\* the list a stage builds and hands to insert_dicts
Collection(s) ==
    CASE s = "organizations" -> organizations
      [] s = "departments" -> departments
      [] s = "users" -> users
      [] s = "teams" -> teams
      [] s = "team_memberships" -> memberships
      [] s = "projects" -> projects
      [] s = "tasks" -> tasks
      [] OTHER -> <<>>

\* the loop of the running stage has built its whole list
LoopEnded ==
    CASE stage = "organizations" -> pos.i = cfg.num_organizations
      [] stage = "departments" -> pos.i = Len(organizations)
      [] stage = "users" -> Len(organizations) > 0 /\ pos.i = Len(UserPlan(1))
      [] stage = "teams" -> pos.i = Len(TeamPlan(1))
      [] stage = "team_memberships" -> pos.i = Len(users)
      [] stage = "projects" -> pos.i = Len(teams)
      [] stage = "tasks" -> pos.i = Len(users) * cfg.tasks_per_user
      [] OTHER -> FALSE

\* cursor.executemany or conn.commit of insert_dicts raises sqlite3.Error
\* (a constraint of the schema, a full disk, a locked file): the rows of the
\* stage are not committed, the exception leaves generate_all, and main logs
\* it, closes the connection and exits; what was committed before stays
FailInsert ==
    /\ LoopEnded
    /\ Collection(stage) # <<>>
    /\ stage' = "failed"
    /\ UNCHANGED <<cfg, current_time, organizations, departments, users, teams,
                   memberships, projects, tasks, sink, pos, wide, previous_run, helper>>

Next ==
    \/ GenOrganization
    \/ EndOrganizations
    \/ GenDepartments
    \/ EndDepartments
    \/ GenUser
    \/ FailUsers
    \/ EndUsers
    \/ GenTeam
    \/ EndTeams
    \/ GenMembership
    \/ EndMemberships
    \/ GenProject
    \/ EndProjects
    \/ GenTask
    \/ EndTasks
    \/ FailInsert

Config(orgs, n_users) ==
    [num_organizations |-> orgs, num_users |-> n_users,
     tasks_per_user |-> TasksPerUser, history_months |-> HistoryMonths]

\* the runs that follow one organization, its first team, the first project
\* of the team and the first task through every draw of their timestamps
Configs == {Config(0, NumUsersSmall), Config(1, NumUsersSmall)}

Init == InitWith(Configs, {"org_time", "user_time", "team_time", "project_time",
                           "task_project", "task_time", "task_completed"})

Spec == Init /\ [][Next]_vars

\* the runs that follow the first user and the first team through every
\* draw of their timestamps and of the team choice, for one and two
\* organizations and for departments of one team and of two
MemberConfigs == {Config(0, NumUsersSmall), Config(1, NumUsersSmall),
                  Config(2, 2 * NumUsersSmall + 1), Config(1, NumUsersLarge)}

InitMembers == InitWith(MemberConfigs, {"org_time", "user_time", "user_role",
                                        "team_time", "member_time", "member_team"})

SpecMembers == InitMembers /\ [][Next]_vars

\* the runs that follow the first project and the first task through every
\* draw of their timestamps and of the due date
InitDue == InitWith(Configs, {"project_time", "task_time", "task_completed",
                              "task_due"})

SpecDue == InitDue /\ [][Next]_vars

\* the runs over two organizations that follow the first task through every
\* choice of its project, its assignee and its creator
RefConfigs == {Config(0, NumUsersSmall), Config(2, 2 * NumUsersSmall + 1)}

InitRefs == InitWith(RefConfigs, {"user_role", "task_project", "task_refs",
                                  "task_completed"})

SpecRefs == InitRefs /\ [][Next]_vars

\* the runs in which every user but the first has one name and the first
\* has any, over one organization or two with any of the company names
InitUsers == InitWith(MemberConfigs, {"org_name", "user_name"})

SpecUsers == InitUsers /\ [][Next]_vars

-----------------------------------------------------------------------------
(* main, started a second time with the same arguments *)

\* the output collections of the run; an identifier is written as the
\* position of its record, the uuid4 value behind it comes from os.urandom
\* and is fixed by no seed
Output ==
    [organizations |-> organizations, departments |-> departments,
     users |-> users, teams |-> teams, memberships |-> memberships,
     projects |-> projects, tasks |-> tasks]

\* the next start of main with the same configuration and the same seed:
\* the database file of the run before is removed, the generator is built
\* again and reads the clock again
Rerun ==
    /\ stage = "done"
    /\ previous_run = <<>>
    /\ previous_run' = Append(previous_run, Output)
    /\ current_time' \in {t \in NowChoices : t >= current_time}
    /\ stage' = "organizations"
    /\ organizations' = <<>>
    /\ departments' = <<>>
    /\ users' = <<>>
    /\ teams' = <<>>
    /\ memberships' = <<>>
    /\ projects' = <<>>
    /\ tasks' = <<>>
    /\ sink' = <<>>
    /\ pos' = AtStart
    /\ UNCHANGED <<cfg, wide, helper>>

NextRuns ==
    \/ Next
    \/ Rerun

\* two runs with one seed: random.seed(random_seed) makes the calls of
\* random.* return the same values in both runs, here the one fixed value
\* every draw has when no group of draws is explored
InitRuns == InitWith(Configs, {})

SpecRuns == InitRuns /\ [][NextRuns]_vars

-----------------------------------------------------------------------------
(* Helpers called outside generate_all *)

\* days_to_complete of generate_completion_date for a lognormvariate draw:
\* capped at 14 days, no less than 0.1 day
DaysToComplete(draw) == Max(Min(draw, 14 * DayT), DayT \div 10)

\* generate_completion_date(created_at, due_date, is_completed = True) for
\* the drawn days_to_complete, the clock reading now and the drawn hours
generate_completion_date(created_at, days_to_complete, now, hours) ==
    LET completed_at == created_at + days_to_complete
    IN IF completed_at > now THEN now - hours * HourT ELSE completed_at

\* how long before current_time the caller's created_at lies
CreatedAgo == {0, 30 * MinuteT, 3 * HourT, 49 * HourT, 20 * DayT}

CallGenerateCompletionDate ==
    /\ helper = NoCall
    /\ \E ago \in CreatedAgo, draw \in LogNormDraws, now \in LaterNow,
          hours \in RandInt(1, 48) :
         LET created_at == current_time - ago
         IN helper' = [name |-> "generate_completion_date",
                       created_at |-> created_at,
                       days_to_complete |-> DaysToComplete(draw),
                       now |-> now,
                       hours |-> hours,
                       result |-> generate_completion_date(
                                      created_at, DaysToComplete(draw), now, hours)]
    /\ UNCHANGED <<stage, cfg, current_time, organizations, departments, users,
                   teams, memberships, projects, tasks, sink, pos, wide,
                   previous_run>>

\* the updated_at computation of generate_projects applied to a project
\* created today or three days ago and due the same day or 14 days later
CallProjectUpdatedAt ==
    /\ helper = NoCall
    /\ \E ago \in {0, 3}, tod \in TimeOfDayDraws, span \in {0, 14} :
         LET created_at == ReplaceTime(current_time - ago * DayT, tod[1], tod[2], tod[3])
             due_date == DateOf(created_at) + span
             latest_update == LatestUpdate(due_date)
         IN \E offset \in RandomTimes(Max(0, latest_update - created_at)) :
              helper' = [name |-> "project_updated_at",
                         created_at |-> strftime(created_at),
                         due_date |-> due_date,
                         updated_at |-> strftime(ProjectUpdatedAt(
                                            created_at, latest_update, offset))]
    /\ UNCHANGED <<stage, cfg, current_time, organizations, departments, users,
                   teams, memberships, projects, tasks, sink, pos, wide,
                   previous_run>>

-----------------------------------------------------------------------------
(* detect_circular_dependencies *)

TaskIds == 1..MaxTaskIds

\* the lists of (blocking_task_id, blocked_task_id) tuples a caller passes
DependencyLists ==
    UNION {[1..n -> TaskIds \X TaskIds] : n \in 0..MaxDependencies}

\* the keys of graph, in the order the dict got them: the blocking ids in
\* the order of their first edge
RECURSIVE GraphKeys(_)
GraphKeys(deps) ==
    IF deps = <<>> THEN <<>>
    ELSE LET front == GraphKeys(SubSeq(deps, 1, Len(deps) - 1))
             blocking == deps[Len(deps)][1]
         IN IF \E k \in 1..Len(front) : front[k] = blocking
            THEN front ELSE Append(front, blocking)

\* graph.get(node, []): the blocked ids of the edges of node, in edge order
Neighbors(deps, node) ==
    LET edges == SelectSeq(deps, LAMBDA e : e[1] = node)
    IN [k \in 1..Len(edges) |-> edges[k][2]]

\* path.index(neighbor), 0 when list.index raises ValueError
PathIndex(path, neighbor) ==
    IF \E k \in 1..Len(path) : path[k] = neighbor
    THEN CHOOSE k \in 1..Len(path) :
             path[k] = neighbor /\ \A j \in 1..(k - 1) : path[j] # neighbor
    ELSE 0

\* the same without the closing node
CycleOpen(path, neighbor) ==
    SubSeq(path, PathIndex(path, neighbor), Len(path))

\* path[cycle_start:] + [neighbor]
Cycle(path, neighbor) ==
    Append(SubSeq(path, PathIndex(path, neighbor), Len(path)), neighbor)

\* the same leaving the node on the recursion stack
BacktrackKeepsStack(node, st) ==
    [st EXCEPT !.path = SubSeq(@, 1, Len(@) - 1), !.found = FALSE]

\* the end of dfs when no neighbor closed a cycle: path.pop(),
\* rec_stack.remove(node), return False
Backtrack(node, st) ==
    [st EXCEPT !.path = SubSeq(@, 1, Len(@) - 1),
               !.rec_stack = @ \ {node},
               !.found = FALSE]

\* dfs(node, path) on the state st of the enclosing call (visited,
\* rec_stack, cycles, the path list); found is the value dfs returns and
\* raised tells that ValueError left it.  dfs_loop is the for loop over the
\* neighbors from position i on
RECURSIVE dfs(_, _, _)
RECURSIVE dfs_loop(_, _, _, _)
dfs_loop(deps, node, i, st) ==
    IF i > Len(Neighbors(deps, node)) THEN Backtrack(node, st)
    ELSE LET neighbor == Neighbors(deps, node)[i]
         IN IF neighbor \notin st.visited
            THEN LET r == dfs(deps, neighbor, st)
                 IN IF r.raised \/ r.found THEN r
                    ELSE dfs_loop(deps, node, i + 1, r)
            ELSE IF neighbor \in st.rec_stack
            THEN IF PathIndex(st.path, neighbor) = 0
                 THEN [st EXCEPT !.raised = TRUE]
                 ELSE [st EXCEPT !.cycles = Append(@, Cycle(st.path, neighbor)),
                                 !.found = TRUE]
            ELSE dfs_loop(deps, node, i + 1, st)

dfs(deps, node, st) ==
    dfs_loop(deps, node, 1,
             [st EXCEPT !.visited = @ \cup {node},
                        !.rec_stack = @ \cup {node},
                        !.path = Append(@, node)])

\* for node in graph: if node not in visited: dfs(node, []), from the k-th
\* key on
RECURSIVE DfsRoots(_, _, _)
DfsRoots(deps, k, st) ==
    IF st.raised \/ k > Len(GraphKeys(deps)) THEN st
    ELSE LET node == GraphKeys(deps)[k]
         IN IF node \in st.visited THEN DfsRoots(deps, k + 1, st)
            ELSE DfsRoots(deps, k + 1, dfs(deps, node, [st EXCEPT !.path = <<>>]))

\* what a call ends with: the exception that left it, or the list cycles
detect_circular_dependencies(deps) ==
    LET st == DfsRoots(deps, 1, [visited |-> {}, rec_stack |-> {}, path |-> <<>>,
                                 cycles |-> <<>>, raised |-> FALSE, found |-> FALSE])
    IN [raised |-> st.raised,
        cycles |-> IF st.raised THEN <<>> ELSE st.cycles]

CallDetectCircularDependencies ==
    /\ helper = NoCall
    /\ \E deps \in DependencyLists :
         helper' = [name |-> "detect_circular_dependencies",
                    dependencies |-> deps,
                    result |-> detect_circular_dependencies(deps)]
    /\ UNCHANGED <<stage, cfg, current_time, organizations, departments, users,
                   teams, memberships, projects, tasks, sink, pos, wide,
                   previous_run>>

-----------------------------------------------------------------------------
(* ConsistencyValidator *)

\* what a validating method leaves: the validator and the value it returns
Ret(self, value) == [self |-> self, value |-> value]

\* the object __init__ builds: two empty lists.  recorded and reset_called
\* keep the history of the calls: the findings the calls reported since the
\* construction or the last reset, and whether reset was ever called
ConsistencyValidator ==
    [name |-> "ConsistencyValidator",
     errors |-> <<>>,
     warnings |-> <<>>,
     recorded |-> [errors |-> 0, warnings |-> 0],
     reset_called |-> FALSE,
     call |-> [name |-> "__init__"]]

reset(self) == [self EXCEPT !.errors = <<>>, !.warnings = <<>>]

validate_datetime_order(self, earlier, later, earlier_name, later_name, entity_id) ==
    IF earlier # None /\ later # None /\ earlier > later
    THEN Ret([self EXCEPT !.errors =
                  Append(@, <<"TC Error", entity_id, earlier_name, "is after", later_name>>)],
             FALSE)
    ELSE Ret(self, TRUE)

\* reference is the reading of datetime.now() when no reference_time is given
validate_not_future(self, dt, field_name, entity_id, reference) ==
    IF dt # None /\ dt > reference
    THEN Ret([self EXCEPT !.errors =
                  Append(@, <<"TC Error", entity_id, field_name, "is in the future", "">>)],
             FALSE)
    ELSE Ret(self, TRUE)

\* valid &= of validate_task_temporal: the next validation on what the last
\* one left when cond holds
AndThen(r, cond, next) ==
    IF cond THEN Ret(next.self, r.value /\ next.value) ELSE r

validate_task_temporal(self, task_id, created_at, completed_at, updated_at, due_date, start_date, now) ==
    LET r0 == Ret(self, TRUE)
        tc1 == AndThen(r0, completed_at # None,
                       validate_datetime_order(r0.self, created_at, completed_at,
                                               "created_at", "completed_at", task_id))
        tc4 == AndThen(tc1, completed_at # None,
                       validate_not_future(tc1.self, completed_at, "completed_at",
                                           task_id, now))
        tc5 == AndThen(tc4, TRUE,
                       validate_datetime_order(tc4.self, created_at, updated_at,
                                               "created_at", "updated_at", task_id))
        tc6 == AndThen(tc5, completed_at # None,
                       validate_datetime_order(tc5.self, completed_at, updated_at,
                                               "completed_at", "updated_at", task_id))
    IN IF start_date # None /\ due_date # None /\ start_date > due_date
       THEN Ret([tc6.self EXCEPT !.errors =
                     Append(@, <<"TC Error", task_id, "start_date", "is after", "due_date">>)],
                FALSE)
       ELSE tc6

validate_no_self_dependency(self, dependency_id, blocking_task_id, blocked_task_id) ==
    IF blocking_task_id = blocked_task_id
    THEN Ret([self EXCEPT !.errors =
                  Append(@, <<"RC Error", dependency_id, "", "Task cannot depend on itself", "">>)],
             FALSE)
    ELSE Ret(self, TRUE)

\* the section names a caller passes, and "done" in section_name.lower()
SectionNames == {"", "Done", "In Progress"}

ContainsDone(section_name) == section_name \in {"Done"}

validate_completed_task_in_done_section(self, task_id, is_completed, section_name) ==
    IF is_completed /\ section_name # "" /\ ~ContainsDone(section_name)
    THEN Ret([self EXCEPT !.warnings =
                  Append(@, <<"RC Warning", task_id, "",
                              "Completed task not in 'Done' section", section_name>>)],
             TRUE)
    ELSE Ret(self, TRUE)

\* the same with valid asking for an empty warnings list too
get_validation_summary_no_warnings(self) ==
    [valid |-> Len(self.errors) = 0 /\ Len(self.warnings) = 0,
     error_count |-> Len(self.errors),
     warning_count |-> Len(self.warnings),
     errors |-> SubSeq(self.errors, 1, Min(20, Len(self.errors))),
     warnings |-> SubSeq(self.warnings, 1, Min(20, Len(self.warnings)))]

get_validation_summary(self) ==
    [valid |-> Len(self.errors) = 0,
     error_count |-> Len(self.errors),
     warning_count |-> Len(self.warnings),
     errors |-> SubSeq(self.errors, 1, Min(20, Len(self.errors))),
     warnings |-> SubSeq(self.warnings, 1, Min(20, Len(self.warnings)))]

Validating == helper.name = "ConsistencyValidator"

NewValidator ==
    /\ helper = NoCall
    /\ helper' = ConsistencyValidator
    /\ UNCHANGED <<stage, cfg, current_time, organizations, departments, users,
                   teams, memberships, projects, tasks, sink, pos, wide,
                   previous_run>>

CallReset ==
    /\ Validating
    /\ helper' = [reset(helper) EXCEPT !.recorded = [errors |-> 0, warnings |-> 0],
                                       !.reset_called = TRUE,
                                       !.call = [name |-> "reset"]]
    /\ UNCHANGED <<stage, cfg, current_time, organizations, departments, users,
                   teams, memberships, projects, tasks, sink, pos, wide,
                   previous_run>>

\* the caller numbers its dependencies: the one that gets the k-th error
\* since the last reset has dependency_id k
CallValidateNoSelfDependency ==
    /\ Validating
    /\ helper.recorded.errors < MaxFindings
    /\ \E blocking_task_id \in TaskIds, blocked_task_id \in TaskIds :
         LET dependency_id == helper.recorded.errors + 1
             r == validate_no_self_dependency(helper, dependency_id,
                                              blocking_task_id, blocked_task_id)
         IN helper' = [r.self EXCEPT
                !.recorded.errors = IF r.value THEN @ ELSE @ + 1,
                !.call = [name |-> "validate_no_self_dependency",
                          blocking_task_id |-> blocking_task_id,
                          blocked_task_id |-> blocked_task_id,
                          result |-> r.value]]
    /\ UNCHANGED <<stage, cfg, current_time, organizations, departments, users,
                   teams, memberships, projects, tasks, sink, pos, wide,
                   previous_run>>

\* the method returns True whatever it finds; a completed task in a named
\* section other than Done is a finding
CallValidateCompletedTaskInDoneSection ==
    /\ Validating
    /\ helper.recorded.warnings < MaxFindings
    /\ \E is_completed \in BOOLEAN, section_name \in SectionNames :
         LET task_id == helper.recorded.warnings + 1
             r == validate_completed_task_in_done_section(helper, task_id,
                                                          is_completed, section_name)
             finding == is_completed /\ section_name \in SectionNames \ {"", "Done"}
         IN helper' = [r.self EXCEPT
                !.recorded.warnings = IF finding THEN @ + 1 ELSE @,
                !.call = [name |-> "validate_completed_task_in_done_section",
                          is_completed |-> is_completed,
                          section_name |-> section_name,
                          result |-> r.value]]
    /\ UNCHANGED <<stage, cfg, current_time, organizations, departments, users,
                   teams, memberships, projects, tasks, sink, pos, wide,
                   previous_run>>

CallGetValidationSummary ==
    /\ Validating
    /\ helper' = [helper EXCEPT !.call = [name |-> "get_validation_summary",
                                          result |-> get_validation_summary(helper)]]
    /\ UNCHANGED <<stage, cfg, current_time, organizations, departments, users,
                   teams, memberships, projects, tasks, sink, pos, wide,
                   previous_run>>

\* validate_task_temporal on a new validator, for a task created a day before
\* current_time: completed a second before, at or a second after its creation,
\* or an hour after current_time, or not completed
CallValidateTaskTemporal ==
    /\ helper = NoCall
    /\ LET created_at == current_time - DayT
           day == DateOf(created_at)
       IN \E completed_at \in {None, created_at - SecondT, created_at,
                               created_at + SecondT, current_time + HourT},
             updated_at \in {created_at - SecondT, created_at, created_at + 2 * SecondT},
             due_date \in {None, day, day + 1},
             start_date \in {None, day, day + 1},
             now \in LaterNow :
            LET r == validate_task_temporal(ConsistencyValidator, 1, created_at,
                                            completed_at, updated_at, due_date,
                                            start_date, now)
            IN helper' = [name |-> "validate_task_temporal",
                          created_at |-> created_at,
                          completed_at |-> completed_at,
                          updated_at |-> updated_at,
                          due_date |-> due_date,
                          start_date |-> start_date,
                          errors |-> r.self.errors,
                          result |-> r.value]
    /\ UNCHANGED <<stage, cfg, current_time, organizations, departments, users,
                   teams, memberships, projects, tasks, sink, pos, wide,
                   previous_run>>

-----------------------------------------------------------------------------
(* generate_due_date *)

\* sprint_boundary_date(base_date) with sprint_length_days = 14 and
\* sprint_start_day = 0
sprint_boundary_date(base_date) ==
    LET days_since_sprint_start == (weekday(base_date) - 0) % 7
        days_until_sprint_end == 14 - days_since_sprint_start
    IN base_date + (IF days_until_sprint_end <= 0
                    THEN days_until_sprint_end + 14 ELSE days_until_sprint_end)

\* the days the branch of the second roll adds to created_at.date()
DueOffsets(branch) ==
    CASE branch \in {"overdue", "week"} -> RandInt(1, 7)
      [] branch = "month" -> RandInt(8, 30)
      [] branch = "quarter" -> RandInt(31, 90)
      [] OTHER -> {0}

\* generate_due_date(created_at, project_type, now) for the branch the two
\* rolls select ("none": the first roll is below 0.10), the drawn
\* days_overdue and days, and the rolls of avoid_weekends and of the sprint
\* alignment
generate_due_date(created_at, project_type, now, branch, days_overdue, days, weekend_roll, sprint_roll) ==
    IF branch = "none" THEN None
    ELSE LET drawn == DateOf(created_at) + days
             due == IF branch = "overdue"
                    THEN Min(drawn, DateOf(now) - days_overdue)
                    ELSE drawn
             weekday_due == avoid_weekends(due, weekend_roll)
         IN IF project_type = "sprint" /\ sprint_roll
            THEN sprint_boundary_date(weekday_due)
            ELSE weekday_due

\* the caller's current_time: the day of the run (a weekday) or a day four or
\* five days later, and a task created that day or 20 days before
CallGenerateDueDate ==
    /\ helper = NoCall
    /\ \E later \in {0, 4, 5}, ago \in {0, 20},
          k \in 1..Len(PROJECT_TYPES), branch \in DueBranches,
          days_overdue \in RandInt(1, 14),
          weekend_roll \in BOOLEAN, sprint_roll \in BOOLEAN :
       \E days \in DueOffsets(branch) :
         LET now == current_time + later * DayT
             created_at == now - ago * DayT
         IN helper' = [name |-> "generate_due_date",
                       created_at |-> created_at,
                       project_type |-> PROJECT_TYPES[k],
                       current_date |-> DateOf(now),
                       branch |-> branch,
                       result |-> generate_due_date(created_at, PROJECT_TYPES[k], now,
                                                    branch, days_overdue, days,
                                                    weekend_roll, sprint_roll)]
    /\ UNCHANGED <<stage, cfg, current_time, organizations, departments, users,
                   teams, memberships, projects, tasks, sink, pos, wide,
                   previous_run>>

-----------------------------------------------------------------------------

NextHelpers ==
    \/ CallGenerateCompletionDate
    \/ CallProjectUpdatedAt
    \/ CallDetectCircularDependencies
    \/ NewValidator
    \/ CallReset
    \/ CallValidateNoSelfDependency
    \/ CallValidateCompletedTaskInDoneSection
    \/ CallGetValidationSummary
    \/ CallValidateTaskTemporal
    \/ CallGenerateDueDate

InitHelpers == InitWith({Config(1, NumUsersSmall)}, {})

SpecHelpers == InitHelpers /\ [][NextHelpers]_vars

-----------------------------------------------------------------------------
(* Properties *)

Emitted(coll) == 1..Len(coll)

\* C1: every task emitted with is_completed = true has completed_at no later
\* than current_time
C1_CompletedNotAfterNow ==
    \A k \in Emitted(tasks) :
        tasks[k].is_completed => strptime(tasks[k].completed_at) <= current_time

\* C2: every task emitted with is_completed = true has completed_at strictly
\* later than its created_at
C2_CompletedAfterCreated ==
    \A k \in Emitted(tasks) :
        tasks[k].is_completed => tasks[k].completed_at > tasks[k].created_at

\* C3: every task emitted, completed or not, has updated_at >= created_at
C3_UpdatedNotBeforeCreated ==
    \A k \in Emitted(tasks) : tasks[k].updated_at >= tasks[k].created_at

\* C4: every membership emitted, primary or secondary, has joined_at no
\* earlier than the created_at of its user and of its team
C4_JoinedAfterUserAndTeam ==
    \A k \in Emitted(memberships) :
        memberships[k].joined_at >=
            Max(users[memberships[k].user_id].created_at,
                teams[memberships[k].team_id].created_at)

\* C5: after the team memberships stage every user has exactly one
\* membership with is_primary_team = true
PrimaryOf(u) == {k \in Emitted(memberships) :
                    memberships[k].user_id = u /\ memberships[k].is_primary_team}

C5_ExactlyOnePrimary ==
    stage \in {"projects", "tasks", "done"} =>
        \A u \in Emitted(users) : Cardinality(PrimaryOf(u)) = 1

\* the end of the stage in a run where a user joined a second team
C5_Witness ==
    /\ stage = "projects"
    /\ \E u \in Emitted(users) :
         Cardinality(Where(memberships, "user_id", u)) = 2

\* C6: every project emitted has created_at no earlier than the created_at
\* of its owning team
C6_ProjectAfterTeam ==
    \A k \in Emitted(projects) :
        projects[k].created_at >= teams[projects[k].team_id].created_at

\* C7: every project emitted has created_at <= updated_at and updated_at no
\* later than the end of its due_date and than current_time
C7_ProjectUpdatedInWindow ==
    \A k \in Emitted(projects) :
        /\ projects[k].created_at <= projects[k].updated_at
        /\ strptime(projects[k].updated_at)
               <= Min(EndOfDay(projects[k].due_date), current_time)

\* C8: every task emitted has created_at no earlier than the created_at of
\* the project it was generated for
C8_TaskAfterProject ==
    \A k \in Emitted(tasks) :
        tasks[k].created_at >= projects[tasks[k].project_id].created_at

\* a task of a project created after current_time (the interval of the task
\* is inverted), created on the lower bound of its interval
C8_Witness ==
    \E k \in Emitted(tasks) :
        /\ strptime(projects[tasks[k].project_id].created_at) > current_time
        /\ tasks[k].created_at = projects[tasks[k].project_id].created_at

\* C9: every user emitted has organization.created_at <= created_at <=
\* last_active_at <= current_time
C9_UserTimes ==
    \A k \in Emitted(users) :
        /\ organizations[users[k].organization_id].created_at <= users[k].created_at
        /\ users[k].created_at <= users[k].last_active_at
        /\ strptime(users[k].last_active_at) <= current_time

\* a user created after the organization and last active, later still,
\* within a day of current_time
C9_Witness ==
    \E k \in Emitted(users) :
        /\ users[k].created_at > organizations[users[k].organization_id].created_at
        /\ users[k].last_active_at > users[k].created_at
        /\ current_time - strptime(users[k].last_active_at) < DayT

\* C10: at the end of a full run the created_at of an organization is not
\* later than the created_at of any department, user, team, project or task
\* of the organization
OfOrg(coll, o) == {coll[k] : k \in Where(coll, "organization_id", o)}

C10_OrgPrecedesDescendants ==
    stage = "done" =>
        \A o \in Emitted(organizations) :
            \A r \in OfOrg(departments, o) \cup OfOrg(users, o) \cup OfOrg(teams, o)
                     \cup OfOrg(projects, o) \cup OfOrg(tasks, o) :
                organizations[o].created_at <= r.created_at

\* the end of a run whose first team was created one day after the
\* organization and that has a user created with the organization
C10_Witness ==
    /\ stage = "done"
    /\ tasks # <<>>
    /\ \E k \in Emitted(users) :
         users[k].created_at = organizations[users[k].organization_id].created_at
    /\ \E k \in Emitted(teams) :
         strptime(teams[k].created_at)
             = strptime(organizations[teams[k].organization_id].created_at) + DayT

-----------------------------------------------------------------------------
(* The order of the stages *)

\* the steps of generate_all, in the order of its calls
StageOrder == <<"organizations", "departments", "users", "teams",
                "team_memberships", "projects", "tasks", "done">>

StageIndex(s) == CHOOSE k \in 1..Len(StageOrder) : StageOrder[k] = s

\* the loops of stage s have run to their end
Complete(s) ==
    CASE s = "organizations" -> Len(organizations) = cfg.num_organizations
      [] s = "departments" ->
            \A o \in Emitted(organizations) :
                Cardinality(Where(departments, "organization_id", o)) = Len(DEPARTMENTS)
      [] s = "users" ->
            \A d \in Emitted(departments) :
                Cardinality(users_by_dept(d)) = DeptUserCount(d)
      [] s = "teams" ->
            \A d \in Emitted(departments) :
                Cardinality(teams_by_dept(d)) =
                    IF users_by_dept(d) = {} THEN 0
                    ELSE NumTeams(Cardinality(users_by_dept(d)))
      [] s = "team_memberships" ->
            \A u \in Emitted(users) :
                teams_by_dept(users[u].department_id) # {}
                    => Where(memberships, "user_id", u) # {}
      [] s = "projects" ->
            \A t \in Emitted(teams) :
                Cardinality(Where(projects, "team_id", t)) \in 2..4
      [] s = "tasks" -> Len(tasks) = Len(users) * cfg.tasks_per_user
      [] OTHER -> TRUE

\* the tables of the stages before position n that had rows to insert
RECURSIVE CommittedBefore(_)
CommittedBefore(n) ==
    IF n <= 1 THEN <<>>
    ELSE CommittedBefore(n - 1) \o
         (IF Collection(StageOrder[n - 1]) # <<>> THEN <<StageOrder[n - 1]>> ELSE <<>>)

\* C11: the stages run in the order Organizations, Departments, Users, Teams,
\* TeamMemberships, Projects, Tasks, done: while a stage runs every earlier
\* stage has produced its complete collection and committed it to the sink,
\* once and in order, and no later stage has produced anything
C11_StagesInOrder ==
    stage # "failed" =>
        LET n == StageIndex(stage)
        IN /\ \A k \in 1..(n - 1) : Complete(StageOrder[k])
           /\ \A k \in (n + 1)..Len(StageOrder) : Collection(StageOrder[k]) = <<>>
           /\ sink = CommittedBefore(n)

\* the end of a run in which all seven stages committed rows
C11_Witness ==
    /\ stage = "done"
    /\ sink = SubSeq(StageOrder, 1, 7)

\* C12: a run that fails with a fatal error has committed nothing: at the
\* end of a run, failed or not, the sink holds the tables of all seven
\* stages or no table at all
C12_AllOrNothing ==
    stage \in {"failed", "done"} =>
        \/ sink = <<>>
        \/ stage = "done" /\ sink = CommittedBefore(Len(StageOrder))

\* C13: two runs with the same configuration and the same random seed
\* produce the same output collections, every field of every record equal
C13_SameSeedSameOutput ==
    (stage = "done" /\ previous_run # <<>>) => Output = previous_run[1]

\* C14: a finished run with at least one organization has emitted
\* num_users * tasks_per_user tasks
C14_TaskCount ==
    (stage = "done" /\ cfg.num_organizations >= 1) =>
        Len(tasks) = cfg.num_users * cfg.tasks_per_user

-----------------------------------------------------------------------------
(* ConsistencyValidator *)

\* rule TC-3 of validate_task_temporal: an error is recorded when both
\* dates are present and start_date is after due_date
TC3_Error(start_date, due_date) ==
    start_date # None /\ due_date # None /\ start_date > due_date

\* C15: no emitted task makes rule TC-3 of the validator record an error:
\* every task with a due_date has start_date <= due_date
C15_NoTC3Error ==
    \A k \in Emitted(tasks) : ~TC3_Error(tasks[k].start_date, tasks[k].due_date)

\* C16: every emitted task that has a due_date is due no later than its
\* project, whichever branch chose the due date and whether or not
\* avoid_weekends moved it
C16_TaskDueWithinProject ==
    \A k \in Emitted(tasks) :
        tasks[k].due_date # None =>
            tasks[k].due_date <= projects[tasks[k].project_id].due_date

\* a task created on the first day of a project and due on the project's
\* last day: a due date drawn 30 or more days ahead in a project of 14 days
C16_Witness ==
    \E k \in Emitted(tasks) :
        LET project == projects[tasks[k].project_id]
        IN /\ tasks[k].due_date = project.due_date
           /\ tasks[k].start_date = project.start_date
           /\ project.due_date = project.start_date + 14

-----------------------------------------------------------------------------
(* The timestamp samplers *)

\* C17: random_datetime_in_range(start, end) with start <= end returns a
\* datetime between start and end: the created_at of every project lies
\* between the bounds generate_projects passed, max(team created_at,
\* history_start) and current_time
C17_SampleWithinBounds ==
    \A k \in Emitted(projects) :
        LET start == Max(strptime(teams[projects[k].team_id].created_at), history_start)
            end == current_time
            t == strptime(projects[k].created_at)
        IN start <= end => (start <= t /\ t <= end)

\* C18: a sampling call with an inverted interval (lower bound after upper
\* bound) fails and returns no timestamp, so no record is emitted from one:
\* every project was sampled by random_datetime_in_range, and every task by
\* _task_created_at, from an interval with start <= end
C18_InvertedIntervalRejected ==
    /\ \A k \in Emitted(projects) :
           Max(strptime(teams[projects[k].team_id].created_at), history_start)
               <= current_time
    /\ \A k \in Emitted(tasks) :
           LET project == projects[tasks[k].project_id]
           IN Max(strptime(project.created_at), history_start)
                  <= Min(current_time, EndOfDay(project.due_date))

\* C19: generate_completion_date called for a completed task with
\* created_at <= now returns t with created_at < t <= now
C19_CompletionWithinBounds ==
    (helper.name = "generate_completion_date" /\ helper.created_at <= helper.now) =>
        (helper.created_at < helper.result /\ helper.result <= helper.now)

ZeroSpan ==
    /\ helper.name = "project_updated_at"
    /\ helper.due_date = DateOf(strptime(helper.created_at))

-----------------------------------------------------------------------------
(* The cycle detector *)

\* the edges of a dependency list as a relation, and its transitive closure
EdgeSet(deps) == {deps[k] : k \in 1..Len(deps)}

RECURSIVE Closure(_)
Closure(R) ==
    LET next == R \cup {p \in TaskIds \X TaskIds :
                           \E m \in TaskIds : <<p[1], m>> \in R /\ <<m, p[2]>> \in R}
    IN IF next = R THEN R ELSE Closure(next)

Cyclic(deps) == \E n \in TaskIds : <<n, n>> \in Closure(EdgeSet(deps))

Detected == helper.name = "detect_circular_dependencies"

\* C21: detect_circular_dependencies returns an empty list exactly when the
\* graph of the edges has no cycle, a self-loop counting as a cycle
C21_EmptyIffAcyclic ==
    Detected =>
        ((~helper.result.raised /\ helper.result.cycles = <<>>)
            <=> ~Cyclic(helper.dependencies))

\* a graph with a node reached twice and no cycle, found free of cycles
C21_Witness ==
    /\ Detected
    /\ helper.dependencies = <<<<1, 2>>, <<1, 3>>, <<3, 2>>>>
    /\ helper.result.cycles = <<>>

\* the tasks a dependency list names
Nodes(deps) == {deps[k][1] : k \in 1..Len(deps)} \cup {deps[k][2] : k \in 1..Len(deps)}

\* the edges form one directed simple cycle over all their nodes: every node
\* has one edge out and one edge in, and every node reaches every node
IsSimpleCycle(deps) ==
    /\ deps # <<>>
    /\ \A n \in Nodes(deps) :
         /\ Cardinality({e \in EdgeSet(deps) : e[1] = n}) = 1
         /\ Cardinality({e \in EdgeSet(deps) : e[2] = n}) = 1
    /\ \A a, b \in Nodes(deps) : <<a, b>> \in Closure(EdgeSet(deps))

\* C22: for edges that form one directed simple cycle over n >= 1 nodes the
\* result holds exactly one cycle; it names every node once, follows the
\* edges and ends on the node it starts with
C22_SimpleCycleReportedOnce ==
    (Detected /\ IsSimpleCycle(helper.dependencies)) =>
        /\ ~helper.result.raised
        /\ Len(helper.result.cycles) = 1
        /\ LET c == helper.result.cycles[1]
               n == Cardinality(Nodes(helper.dependencies))
           IN /\ Len(c) = n + 1
              /\ c[1] = c[n + 1]
              /\ {c[k] : k \in 1..n} = Nodes(helper.dependencies)
              /\ \A k \in 1..n : <<c[k], c[k + 1]>> \in EdgeSet(helper.dependencies)

\* a cycle over three nodes whose edges are listed out of cycle order
C22_Witness ==
    /\ Detected
    /\ helper.dependencies = <<<<1, 2>>, <<3, 1>>, <<2, 3>>>>
    /\ helper.result.cycles = <<<<1, 2, 3, 1>>>>

\* C27: detect_circular_dependencies ends with a list for every edge list, no
\* exception leaves it
C27_NeverRaises ==
    Detected => ~helper.result.raised

-----------------------------------------------------------------------------
(* The validation summary *)

Summarized == Validating /\ helper.call.name = "get_validation_summary"

\* C23: get_validation_summary reports valid exactly when no error was
\* recorded since the last reset, whatever the warnings; the two counts are
\* the numbers of findings recorded since then, and the two lists are the
\* first min(20, count) findings in the order they were recorded
C23_SummaryReportsRecorded ==
    Summarized =>
        LET s == helper.call.result
        IN /\ s.valid <=> helper.recorded.errors = 0
           /\ s.error_count = helper.recorded.errors
           /\ s.warning_count = helper.recorded.warnings
           /\ Len(s.errors) = Min(20, helper.recorded.errors)
           /\ Len(s.warnings) = Min(20, helper.recorded.warnings)
           /\ \A k \in 1..Len(s.errors) : s.errors[k][1] = "RC Error" /\ s.errors[k][2] = k
           /\ \A k \in 1..Len(s.warnings) :
                s.warnings[k][1] = "RC Warning" /\ s.warnings[k][2] = k

\* a summary after a reset that is valid with a warning recorded
C23_Witness ==
    /\ Summarized
    /\ helper.reset_called
    /\ helper.recorded.errors = 0
    /\ helper.recorded.warnings = MaxFindings
    /\ helper.call.result.valid
    /\ Len(helper.call.result.warnings) = 20

TemporalChecked == helper.name = "validate_task_temporal"

\* C24: validate_task_temporal records an error and returns False for a task
\* whose completed_at is present and not later than its created_at, equal
\* included
C24_TC1RejectsNotLater ==
    (/\ TemporalChecked
     /\ helper.completed_at # None
     /\ helper.completed_at <= helper.created_at) =>
        /\ helper.result = FALSE
        /\ helper.errors # <<>>

-----------------------------------------------------------------------------
(* Secondary memberships *)

MembershipsOf(u) == Where(memberships, "user_id", u)

SecondaryOf(u) == {k \in MembershipsOf(u) : ~memberships[k].is_primary_team}

\* C25: a user has at most one membership with is_primary_team false; it is
\* in a team of the user's own department other than the primary team; no
\* user has two memberships in one team; a user whose department has a
\* single team has no secondary membership
C25_SecondaryMembership ==
    \A u \in Emitted(users) :
        /\ Cardinality(SecondaryOf(u)) <= 1
        /\ \A k \in SecondaryOf(u) :
             /\ memberships[k].team_id \in teams_by_dept(users[u].department_id)
             /\ \A p \in PrimaryOf(u) :
                  memberships[p].team_id # memberships[k].team_id
        /\ \A k, l \in MembershipsOf(u) :
             memberships[k].team_id = memberships[l].team_id => k = l
        /\ Cardinality(teams_by_dept(users[u].department_id)) = 1
             => SecondaryOf(u) = {}

\* a run that ended with a user in two teams and a user who rolled a
\* secondary membership in a department of one team
C25_Witness ==
    /\ stage = "done"
    /\ \E u \in Emitted(users) : SecondaryOf(u) # {}
    /\ \E u \in Emitted(users) :
         /\ Cardinality(teams_by_dept(users[u].department_id)) = 1
         /\ Cardinality(MembershipsOf(u)) = 1

-----------------------------------------------------------------------------
(* Finished collections *)

\* C26: once a stage has produced its collection no later stage adds to it,
\* removes from it or changes a record of it: every step of a running stage
\* leaves the collections of all earlier stages as they were
C26_EarlierCollectionsUnchanged ==
    [][stage # "failed" =>
          \A k \in 1..(StageIndex(stage) - 1) :
              Collection(StageOrder[k])' = Collection(StageOrder[k])]_vars

\* the task stage at work on the projects, teams and users of earlier stages
C26_Witness ==
    /\ stage = "tasks"
    /\ Len(tasks) > 0
    /\ \A k \in 1..(StageIndex("tasks") - 1) : Collection(StageOrder[k]) # <<>>

-----------------------------------------------------------------------------
(* The users a task names *)

\* the users of the organization of the project of task t
OrgUsersOf(t) ==
    Where(users, "organization_id", projects[tasks[t].project_id].organization_id)

\* C28: a task names only users of the organization of its project:
\* created_by_id is never null, assignee_id is null or such a user,
\* completed_by_id is null on a task that is not completed and such a user on
\* a completed one; and the pool the task stage chooses a user from is never
\* empty
C28_TaskUsersOfOwnOrganization ==
    /\ \A t \in Emitted(tasks) :
         /\ tasks[t].created_by_id # None
         /\ tasks[t].created_by_id \in OrgUsersOf(t)
         /\ tasks[t].assignee_id = None \/ tasks[t].assignee_id \in OrgUsersOf(t)
         /\ ~tasks[t].is_completed => tasks[t].completed_by_id = None
         /\ tasks[t].is_completed => tasks[t].completed_by_id \in OrgUsersOf(t)
    /\ stage = "tasks" =>
         \A p \in Emitted(projects) :
             Where(users, "organization_id", projects[p].organization_id) # {}

\* a run over two organizations that ended with a completed, unassigned task
\* of the second organization while the only managers are of the first
C28_Witness ==
    /\ stage = "done"
    /\ \E t \in Emitted(tasks) :
         /\ projects[tasks[t].project_id].organization_id = 2
         /\ tasks[t].is_completed
         /\ tasks[t].assignee_id = None
         /\ tasks[t].completed_by_id = tasks[t].created_by_id
    /\ managers # {}
    /\ \A u \in managers : users[u].organization_id = 1

-----------------------------------------------------------------------------
(* Overdue due dates *)

\* C29: in the overdue branch generate_due_date returns a date strictly
\* before current_time.date(), for every project type and every outcome of
\* the weekend avoidance and of the sprint alignment
C29_OverdueBeforeToday ==
    (helper.name = "generate_due_date" /\ helper.branch = "overdue") =>
        helper.result < helper.current_date

-----------------------------------------------------------------------------
(* Email addresses *)

EmailBaseOf(u) == EmailBase(users[u].first_name, users[u].last_name)

DomainOf(u) == organizations[users[u].organization_id].domain

\* the address of the name of user u with number k is held by a user
\* generated before u
TakenBefore(u, k) ==
    \E v \in 1..(u - 1) : users[v].email = Email(EmailBaseOf(u), k, DomainOf(u))

\* C30: no two users have the same email, whatever their names and
\* organizations; a user whose plain address was taken has the address with
\* the smallest number from 1 on that no earlier user holds, and the search
\* for it ends after at most one step per earlier user
C30_UniqueEmails ==
    /\ \A u, v \in Emitted(users) : users[u].email = users[v].email => u = v
    /\ \A u \in Emitted(users) :
         \E k \in 0..(u - 1) :
             /\ users[u].email = Email(EmailBaseOf(u), k, DomainOf(u))
             /\ \A j \in 0..(k - 1) : TakenBefore(u, j)

\* two organizations with one domain: a user of the second whose name is
\* taken in the first, and a user whose number 1 is taken by the plain
\* address of another name
C30_Witness ==
    /\ stage = "teams"
    /\ \E u, v \in Emitted(users) :
         /\ users[u].organization_id # users[v].organization_id
         /\ EmailBaseOf(u) = EmailBaseOf(v)
         /\ DomainOf(u) = DomainOf(v)
    /\ \E u, v \in Emitted(users) :
         /\ v < u
         /\ EmailBaseOf(u) # EmailBaseOf(v)
         /\ users[v].email = Email(EmailBaseOf(u), 1, DomainOf(u))
         /\ users[u].email = Email(EmailBaseOf(u), 2, DomainOf(u))
====
